---- MODULE Spec2Model ----
(***************************************************************************)
(* Model of the USB topology assembler of usb-tree-win (src/src/usb-tree.ts).*)
(*                                                                         *)
(* buildUSBTree takes the device map and the COM-port map produced by the  *)
(* acquisition layer and runs seven passes over them, in this order:       *)
(*   assign COM ports -> sort COM ports -> link children -> sort children  *)
(*   -> find root hubs -> build port chains -> synthesize channel children.*)
(* The action BuildUSBTree is the whole call: pc is "start" before it and  *)
(* "done" after it, when the variables hold the returned USBTree.          *)
(*                                                                         *)
(* The specifications share these definitions.  Spec starts where the      *)
(* acquisition layer has returned its two maps and explores buildUSBTree   *)
(* on a wide set of inputs.  PassSpec is the whole enumeration pass on a   *)
(* narrower set: the blocking calls to the external acquisition scripts    *)
(* (which return, throw, or never return), the fallback from the fast to   *)
(* the slow strategy, buildUSBTree, and the queries on the returned tree.  *)
(* LivePassSpec is the pass with the fairness of the code's scheduling.    *)
(* StepSpec is buildUSBTree taken one call of buildPortChain and one       *)
(* iteration of the synthesis loop at a time, on inputs that also hold     *)
(* self-parents and parent cycles.                                         *)
(*                                                                         *)
(* Encoding of the program's values:                                       *)
(*   - a path string is a sequence of characters (one-character strings,   *)
(*     the COM label counting as one token), so that toUpperCase and       *)
(*     string concatenation are computed, not assumed;                     *)
(*   - a port chain "1-3-10" is the character sequence                     *)
(*     <<"1","-","3","-","1","0">>, the empty string is << >>, and "-1"    *)
(*     is <<"-","1">>;                                                     *)
(*   - a JS Map is a function (the entries) plus a sequence of keys (the   *)
(*     insertion order, which is the iteration order);                     *)
(*   - an object reference to a device is the key under which the device   *)
(*     is stored in the device map (every device object is stored under    *)
(*     exactly one key);                                                   *)
(*   - null / undefined / '' for a path is << >>; an undefined channel is  *)
(*     0 (the parser never stores a channel that is not > 0).              *)
(***************************************************************************)
EXTENDS Integers, Sequences, FiniteSets, TLC

VARIABLES
    devices,     \* Map<string, USBDevice>: key -> device record
    order,       \* insertion order of the keys of devices
    comPorts,    \* Map<string, {instancePath, channel}> as a sequence of entries
    comPortMap,  \* Map<string, {device, comInfo}> as a sequence of entries
    rootHubs,    \* USBDevice[]: sequence of keys
    pc,          \* position of the enumeration pass
    strategy,    \* the acquisition strategy that produced the records
    parentMap,   \* $parentMap of the PowerShell script: key -> parent path
    refetched,   \* instance path -> answer of the individual fetch of its parent
    console,     \* the lines written by console.log and console.warn
    reply,       \* the value returned by the last query on the tree
    useSlowPath, \* the argument of buildUSBTree
    calls,       \* the calls made to the acquisition sources, with their outcomes
    stack,       \* the pending calls of buildPortChain, the next one first
    cursor,      \* the position of the loop of pass 7 in the device map
    visits       \* key -> number of calls of buildPortChain on the device

vars == <<devices, order, comPorts, comPortMap, rootHubs, pc,
          strategy, parentMap, refetched, console, reply, useSlowPath, calls, stack, cursor, visits>>

(***************************************************************************)
(* Bounds of the explored inputs.                                          *)
(***************************************************************************)
MaxDevices == 3
MaxPort == 2
MaxComPorts == 2
MaxBridgeDevices == 2
MaxLiveDevices == 1

(***************************************************************************)
(* Strings.                                                                *)
(***************************************************************************)
NoPath == << >>

LowerNames == <<"a", "b", "c", "d", "e", "z">>
UpperNames == <<"A", "B", "C", "D", "E", "Z">>

UpperChar(c) ==
    IF \E i \in DOMAIN LowerNames : LowerNames[i] = c
    THEN UpperNames[CHOOSE i \in DOMAIN LowerNames : LowerNames[i] = c]
    ELSE c

ToUpperCase(path) == [i \in DOMAIN path |-> UpperChar(path[i])]

Digits == <<"0", "1", "2", "3", "4", "5", "6", "7", "8", "9">>

\* the decimal digits of a number, as a template literal prints it
RECURSIVE ToStr(_)
ToStr(n) ==
    IF n < 10 THEN <<Digits[n + 1]>>
    ELSE ToStr(n \div 10) \o <<Digits[(n % 10) + 1]>>

ComLabels == <<"COM3", "COM4", "COM9", "COM26">>
ComNumbers == <<3, 4, 9, 26>>

ComNum(label) == ComNumbers[CHOOSE i \in DOMAIN ComLabels : ComLabels[i] = label]

Range(s) == {s[i] : i \in DOMAIN s}

\* String.prototype.startsWith
StartsWith(chain, prefix) ==
    /\ Len(prefix) <= Len(chain)
    /\ SubSeq(chain, 1, Len(prefix)) = prefix

(***************************************************************************)
(* Array.prototype.sort with a numeric comparator (a, b) => key(a)-key(b): *)
(* ascending and stable.  key[i] is the sort key of seq[i].                *)
(***************************************************************************)
StableSortByKey(seq, key) ==
    [p \in 1..Len(seq) |->
        seq[CHOOSE i \in 1..Len(seq) :
                Cardinality({j \in 1..Len(seq) :
                                \/ key[j] < key[i]
                                \/ key[j] = key[i] /\ j < i}) = p - 1]]

SortComPortList(list) ==
    StableSortByKey(list, [i \in 1..Len(list) |-> ComNum(list[i].port)])

SortChildList(devs, list) ==
    StableSortByKey(list, [i \in 1..Len(list) |-> devs[list[i]].portNumber])

(***************************************************************************)
(* Map.set on the two maps.                                                *)
(***************************************************************************)
DevicesSet(st, key, dev) ==
    IF key \in DOMAIN st.devices
    THEN [st EXCEPT !.devices = [@ EXCEPT ![key] = dev]]
    ELSE [st EXCEPT !.devices = (key :> dev) @@ @,
                    !.order = Append(@, key)]

ComPortMapSet(cmap, entry) ==
    IF \E i \in DOMAIN cmap : cmap[i].port = entry.port
    THEN [i \in DOMAIN cmap |-> IF cmap[i].port = entry.port THEN entry ELSE cmap[i]]
    ELSE Append(cmap, entry)

(***************************************************************************)
(* Pass 1 (lines 280-293): assign COM ports to devices.                    *)
(***************************************************************************)
Role(channel) ==
    IF channel = 1 THEN "JTAG" ELSE IF channel = 2 THEN "Serial" ELSE ""

MakeComInfo(port, info) ==
    [port |-> port, channel |-> info.channel, role |-> Role(info.channel)]

RECURSIVE AssignFrom(_, _, _)
AssignFrom(i, cps, st) ==
    IF i > Len(cps) THEN st
    ELSE LET info == cps[i]
             key == ToUpperCase(info.instancePath)
         IN IF key \in DOMAIN st.devices
            THEN LET comInfo == MakeComInfo(info.port, info)
                 IN AssignFrom(i + 1, cps,
                        [st EXCEPT
                            !.devices = [@ EXCEPT ![key].comPorts = Append(@, comInfo)],
                            !.comPortMap = ComPortMapSet(@,
                                [port |-> info.port, device |-> key, comInfo |-> comInfo])])
            ELSE AssignFrom(i + 1, cps, st)

(***************************************************************************)
(* Pass 2 (lines 295-302): sort the COM ports of every device by number.   *)
(***************************************************************************)
\* pass 2 left out
SortAllComPortsSkipped(devs) == devs

SortAllComPorts(devs) ==
    [k \in DOMAIN devs |-> [devs[k] EXCEPT !.comPorts = SortComPortList(@)]]

(***************************************************************************)
(* Pass 3 (lines 304-318): push every device onto its parent's children.   *)
(***************************************************************************)
\* the lookup of line 307 without toUpperCase()
LinkLookupKeyExact(path) == path

LinkLookupKey(path) == ToUpperCase(path)

\* the lines 312 and 316 write while the loop of pass 3 runs
\* line 312 without the path of the device
OrphanLineUnnamed(dev) ==
    [text |-> "Orphan device", device |-> NoPath, parent |-> dev.parentPath]

OrphanLine(dev) ==
    [text |-> "Orphan device", device |-> dev.instancePath, parent |-> dev.parentPath]

NoParentLine(dev) ==
    [text |-> "No parent", device |-> dev.instancePath, parent |-> NoPath]

RECURSIVE LinkLog(_, _, _)
LinkLog(i, ord, devs) ==
    IF i > Len(ord) THEN << >>
    ELSE LET dev == devs[ord[i]]
         IN (IF dev.parentPath # NoPath
             THEN IF LinkLookupKey(dev.parentPath) \in DOMAIN devs
                  THEN << >>
                  ELSE <<OrphanLine(dev)>>
             ELSE <<NoParentLine(dev)>>) \o LinkLog(i + 1, ord, devs)

RECURSIVE LinkFrom(_, _, _)
LinkFrom(i, ord, devs) ==
    IF i > Len(ord) THEN devs
    ELSE LET k == ord[i]
             dev == devs[k]
         IN IF dev.parentPath # NoPath /\ LinkLookupKey(dev.parentPath) \in DOMAIN devs
            THEN LinkFrom(i + 1, ord,
                    [devs EXCEPT ![LinkLookupKey(dev.parentPath)].children = Append(@, k)])
            ELSE LinkFrom(i + 1, ord, devs)

(***************************************************************************)
(* Pass 4 (lines 320-323): sort every children list by port number.        *)
(***************************************************************************)
\* pass 4 left out
SortAllChildrenSkipped(devs) == devs

SortAllChildren(devs) ==
    [k \in DOMAIN devs |-> [devs[k] EXCEPT !.children = SortChildList(devs, @)]]

(***************************************************************************)
(* Pass 5 (lines 325-333): the root hubs, in map order.                    *)
(***************************************************************************)
RootLookupKey(path) == ToUpperCase(path)

\* the test of line 328 left out
HasNoParentInMapIgnored(devs, dev) == TRUE

HasNoParentInMap(devs, dev) ==
    dev.parentPath = NoPath \/ RootLookupKey(dev.parentPath) \notin DOMAIN devs

\* the test of line 329 without the sentinel vendor code
IsHubOnly(dev) == dev.isHub

IsHubOrRoot(dev) == dev.isHub \/ dev.vid = "ROOT"

FindRootHubs(ord, devs) ==
    LET Test(k) == HasNoParentInMap(devs, devs[k]) /\ IsHubOrRoot(devs[k])
    IN SelectSeq(ord, Test)

(***************************************************************************)
(* Pass 6 (lines 335-350): port chains, recursively from every root hub.   *)
(***************************************************************************)
\* a root hub left without a chain, and a chain started at 0 (line 341)
RootChainEmpty == << >>

RootChainZero == <<"0">>

RootChain == <<"1">>

\* line 338 without the port number, and without the separator
ChildChainSameAsParent(parentChain, portNumber) == parentChain

ChildChainNoSeparator(parentChain, portNumber) == parentChain \o ToStr(portNumber)

ChildChain(parentChain, portNumber) == parentChain \o <<"-">> \o ToStr(portNumber)

RECURSIVE buildPortChain(_, _, _)
RECURSIVE BuildChildChains(_, _, _)
buildPortChain(devs, k, parentChain) ==
    LET chain == IF parentChain # << >>
                 THEN ChildChain(parentChain, devs[k].portNumber)
                 ELSE RootChain
    IN BuildChildChains([devs EXCEPT ![k].portChain = chain], k, 1)

BuildChildChains(devs, k, i) ==
    IF i > Len(devs[k].children) THEN devs
    ELSE BuildChildChains(
            buildPortChain(devs, devs[k].children[i], devs[k].portChain), k, i + 1)

RECURSIVE BuildAllChains(_, _, _)
BuildAllChains(i, roots, devs) ==
    IF i > Len(roots) THEN devs
    ELSE BuildAllChains(i + 1, roots, buildPortChain(devs, roots[i], << >>))

(***************************************************************************)
(* Pass 7 (lines 352-393): virtual child devices for multi-port devices.   *)
(* The outer loop iterates the device map while the inner loop inserts     *)
(* into it: a Map iterator visits entries added during the iteration, so   *)
(* the walk runs to the end of the grown key order.                        *)
(***************************************************************************)
\* line 357 with the position only
SynthChannelPositional(comInfo, position) == position

SynthChannel(comInfo, position) ==
    IF comInfo.channel # 0 THEN comInfo.channel ELSE position

MakeChildDevice(dev, comInfo, channel) ==
    [instancePath |-> dev.instancePath \o <<"#", comInfo.port>>,
     vid          |-> dev.vid,
     parentPath   |-> dev.instancePath,
     portNumber   |-> channel,
     isHub        |-> FALSE,
     comPorts     |-> <<comInfo>>,
     children     |-> << >>,
     portChain    |-> ChildChain(dev.portChain, channel)]

\* lines 383-384 left out
RemapToChildSkipped(cmap, entry) == cmap

\* lines 383-384: the label now maps to the child device
RemapToChild(cmap, entry) == ComPortMapSet(cmap, entry)

RECURSIVE SynthChildrenFrom(_, _, _, _)
SynthChildrenFrom(j, k, ports, st) ==
    IF j > Len(ports) THEN st
    ELSE LET comInfo == ports[j]
             channel == SynthChannel(comInfo, j)
             child == MakeChildDevice(st.devices[k], comInfo, channel)
             st1 == [st EXCEPT !.devices = [@ EXCEPT ![k].children =
                                               Append(@, child.instancePath)]]
             st2 == DevicesSet(st1, child.instancePath, child)
             st3 == [st2 EXCEPT !.comPortMap = RemapToChild(@,
                        [port |-> comInfo.port, device |-> child.instancePath,
                         comInfo |-> comInfo])]
         IN SynthChildrenFrom(j + 1, k, ports, st3)

\* line 388 left out
ClearedComPortsKept(ports) == ports

ClearedComPorts(ports) == << >>

\* line 391 left out
ResortChildrenSkipped(devs, list) == list

ResortChildren(devs, list) == SortChildList(devs, list)

\* lines 355-392 with the clearing of line 388 done for every device
SynthDeviceClearingAll(k, st) ==
    LET st1 == IF Len(st.devices[k].comPorts) > 1
               THEN SynthChildrenFrom(1, k, st.devices[k].comPorts, st)
               ELSE st
        st2 == [st1 EXCEPT !.devices = [@ EXCEPT ![k].comPorts = ClearedComPorts(@)]]
    IN [st2 EXCEPT !.devices = [@ EXCEPT ![k].children =
                                   ResortChildren(st2.devices, @)]]

SynthDevice(k, st) ==
    IF Len(st.devices[k].comPorts) > 1
    THEN LET st1 == SynthChildrenFrom(1, k, st.devices[k].comPorts, st)
             st2 == [st1 EXCEPT !.devices = [@ EXCEPT ![k].comPorts = ClearedComPorts(@)]]
         IN [st2 EXCEPT !.devices = [@ EXCEPT ![k].children =
                                        ResortChildren(st2.devices, @)]]
    ELSE st

RECURSIVE SynthFrom(_, _)
SynthFrom(i, st) ==
    IF i > Len(st.order) THEN st
    ELSE SynthFrom(i + 1, SynthDevice(st.order[i], st))

(***************************************************************************)
(* The records the acquisition layer hands to buildUSBTree (lines 203-243  *)
(* of usb-tree.ts, 157-197 of usb-tree-pnputil.ts): every device is stored *)
(* under its upper-cased instance path with empty comPorts, children and   *)
(* portChain; a parent path is null or a non-empty string; a channel is    *)
(* kept only when it is > 0.                                               *)
(*                                                                         *)
(* Device i of an input is named by the i-th letter.  Instance paths come  *)
(* in both cases (odd devices lower case, even devices upper case) and a   *)
(* reference to a device (a parent path, the owning path of a COM port) is *)
(* written in the other case than the instance path it names, so that no   *)
(* lookup succeeds by accident of spelling.                                *)
(***************************************************************************)
Kinds ==
    {[vid |-> "ROOT", isHub |-> TRUE], [vid |-> "0403", isHub |-> TRUE],
     [vid |-> "0403", isHub |-> FALSE], [vid |-> "ROOT", isHub |-> FALSE]}

Channels == {0, 1, 2}

\* the port numbers of the location information: 0 (unknown), 1, and
\* two-digit numbers whose decimal form starts like that of port 1
PortNumbers == {0, 1} \cup {8 + i : i \in 2..MaxPort}

DevicePath(i) == <<IF i % 2 = 1 THEN LowerNames[i] ELSE UpperNames[i]>>

AbsentPath == <<"z">>

\* r = 0: no path; r in 1..n: a spelling of the path of device r;
\* r = n + 1: the path of no device
RefPath(r, n) ==
    IF r = 0 THEN NoPath
    ELSE IF r > n THEN AbsentPath
    ELSE <<IF r % 2 = 1 THEN UpperNames[r] ELSE LowerNames[r]>>

\* the record made of one DEVICE line whose parent field is parentPath
ParsedLine(i, attr, parentPath) ==
    [instancePath |-> DevicePath(i),
     vid          |-> attr.kind.vid,
     parentPath   |-> parentPath,
     portNumber   |-> attr.port,
     isHub        |-> attr.kind.isHub,
     comPorts     |-> << >>,
     children     |-> << >>,
     portChain    |-> << >>]

ParsedDevice(i, n, attr) == ParsedLine(i, attr, RefPath(attr.parent, n))

ParsedComPort(label, owner, channel, n) ==
    [port |-> label, instancePath |-> RefPath(owner, n), channel |-> channel]

\* a device names as its parent nothing, another device, or a path of no device
DeviceInputs(n) ==
    {attrs \in [1..n -> [kind : Kinds, port : PortNumbers, parent : 0..(n + 1)]] :
        \A i \in 1..n : attrs[i].parent # i}

\* the COM-port map lists its m ports in descending label order, so that the
\* numeric sort of pass 2 has work to do
ComPortInputs(n, m) ==
    {[j \in 1..m |-> ParsedComPort(ComLabels[m + 1 - j], owner[j], channel[j], n)] :
        owner \in [1..m -> 1..(n + 1)], channel \in [1..m -> Channels]}

NoReply == [op |-> "none"]

\* a call to an acquisition source is entered, and ends by returning or throwing
Called(cs, source) == Append(cs, [source |-> source, outcome |-> "running"])

Ended(cs, outcome) == [cs EXCEPT ![Len(cs)].outcome = outcome]

EmptyMap == [k \in {} |-> NoPath]

NoVisits == [k \in {} |-> 0]

InputOf(n, attrs, cps) ==
    /\ order = [i \in 1..n |-> ToUpperCase(DevicePath(i))]
    /\ devices = [k \in {ToUpperCase(DevicePath(i)) : i \in 1..n} |->
                    LET i == CHOOSE i \in 1..n : ToUpperCase(DevicePath(i)) = k
                    IN ParsedDevice(i, n, attrs[i])]
    /\ comPorts = cps
    /\ comPortMap = << >>
    /\ rootHubs = << >>
    /\ pc = "start"
    /\ strategy = "pnputil"
    /\ parentMap = EmptyMap
    /\ refetched = EmptyMap
    /\ console = << >>
    /\ reply = NoReply
    /\ useSlowPath = FALSE
    /\ calls = Ended(Called(<< >>, "pnputil"), "returned")
    /\ stack = << >>
    /\ cursor = 0
    /\ visits = NoVisits

\* up to MaxDevices devices and no COM port
InitTopology ==
    \E n \in 1..MaxDevices : \E attrs \in DeviceInputs(n) :
        InputOf(n, attrs, << >>)

\* up to MaxBridgeDevices devices and 1..MaxComPorts COM ports
InitChannels ==
    \E n \in 1..MaxBridgeDevices, m \in 1..MaxComPorts :
    \E attrs \in DeviceInputs(n), cps \in ComPortInputs(n, m) :
        InputOf(n, attrs, cps)

Init == InitTopology \/ InitChannels

(***************************************************************************)
(* buildUSBTree (lines 276-396): the seven passes, in the code's order.    *)
(***************************************************************************)
\* passes 1 to 5 (lines 278-333): the maps as pass 6 finds them
BeforeChains(devs, ord, cps) ==
    LET assigned == AssignFrom(1, cps, [devices |-> devs, comPortMap |-> << >>])
        sortedChildren == SortAllChildren(
                            LinkFrom(1, ord, SortAllComPorts(assigned.devices)))
    IN [devices |-> sortedChildren,
        order |-> ord,
        comPortMap |-> assigned.comPortMap,
        rootHubs |-> FindRootHubs(ord, sortedChildren)]

\* passes 1 to 6 (lines 278-350): the maps as pass 7 finds them
BeforeSynthesis(devs, ord, cps) ==
    LET linked == BeforeChains(devs, ord, cps)
    IN [linked EXCEPT !.devices = BuildAllChains(1, linked.rootHubs, @)]

BuildResult(devs, ord, cps) ==
    LET pre == BeforeSynthesis(devs, ord, cps)
        st == SynthFrom(1, [devices |-> pre.devices,
                            order |-> pre.order,
                            comPortMap |-> pre.comPortMap])
    IN [devices |-> st.devices, order |-> st.order,
        comPortMap |-> st.comPortMap, rootHubs |-> pre.rootHubs,
        console |-> LinkLog(1, ord, devs)]

BuildUSBTree ==
    /\ pc = "start"
    /\ \E tree \in {BuildResult(devices, order, comPorts)} :
          /\ devices' = tree.devices
          /\ order' = tree.order
          /\ comPortMap' = tree.comPortMap
          /\ rootHubs' = tree.rootHubs
          /\ console' = console \o tree.console
    /\ pc' = "done"
    /\ UNCHANGED <<comPorts, strategy, parentMap, refetched, reply, useSlowPath, calls, stack, cursor, visits>>

Next == BuildUSBTree

Spec == Init /\ [][Next]_vars

(***************************************************************************)
(* The queries on a returned tree (lines 398-432, 476-530).  A query reads *)
(* tree.allDevices (the device map, in insertion order), tree.comPortMap   *)
(* and nothing else, and leaves the tree as it is.  A returned device is   *)
(* the key of the device, a returned list a sequence of keys.              *)
(***************************************************************************)
NotFound == <<"undefined">>

\* line 403
ChainEquals(chain, portChain) == chain = portChain

RECURSIVE FirstMatch(_, _, _, _)
FirstMatch(i, devs, ord, portChain) ==
    IF i > Len(ord) THEN NotFound
    ELSE IF ChainEquals(devs[ord[i]].portChain, portChain) THEN ord[i]
    ELSE FirstMatch(i + 1, devs, ord, portChain)

\* the loop of lines 402-406 returning the last match instead of the first
RECURSIVE LastMatch(_, _, _, _)
LastMatch(i, devs, ord, portChain) ==
    IF i > Len(ord) THEN NotFound
    ELSE LET rest == LastMatch(i + 1, devs, ord, portChain)
         IN IF rest # NotFound THEN rest
            ELSE IF ChainEquals(devs[ord[i]].portChain, portChain) THEN ord[i]
            ELSE NotFound

getLastDeviceByPortChain(devs, ord, portChain) == LastMatch(1, devs, ord, portChain)

getDeviceByPortChain(devs, ord, portChain) == FirstMatch(1, devs, ord, portChain)

\* line 416 without the equality, and with startsWith(prefix) for
\* startsWith(prefix + '-')
PrefixMatchesBelowOnly(chain, prefix) == StartsWith(chain, prefix \o <<"-">>)

PrefixMatchesAnyContinuation(chain, prefix) == StartsWith(chain, prefix)

PrefixMatches(chain, prefix) ==
    chain = prefix \/ StartsWith(chain, prefix \o <<"-">>)

\* String.prototype.split('-')
RECURSIVE Split(_)
Split(chain) ==
    IF \E i \in DOMAIN chain : chain[i] = "-"
    THEN LET i == CHOOSE i \in DOMAIN chain :
                     chain[i] = "-" /\ \A j \in 1..(i - 1) : chain[j] # "-"
         IN <<SubSeq(chain, 1, i - 1)>> \o Split(SubSeq(chain, i + 1, Len(chain)))
    ELSE <<chain>>

\* Number(s) for a string of decimal digits; Number('') is 0
RECURSIVE ToNumber(_)
ToNumber(chars) ==
    IF chars = << >> THEN 0
    ELSE 10 * ToNumber(SubSeq(chars, 1, Len(chars) - 1))
         + (CHOOSE d \in 0..9 : Digits[d + 1] = chars[Len(chars)])

Parts(chain) == [i \in DOMAIN Split(chain) |-> ToNumber(Split(chain)[i])]

\* partsA[i] ?? 0
PartOrZero(parts, i) == IF i \in DOMAIN parts THEN parts[i] ELSE 0

\* the comparator of lines 421-430
CompareChains(a, b) ==
    LET partsA == Parts(a)
        partsB == Parts(b)
        n == IF Len(partsA) > Len(partsB) THEN Len(partsA) ELSE Len(partsB)
        differ == {i \in 1..n : PartOrZero(partsA, i) # PartOrZero(partsB, i)}
    IN IF differ = {} THEN 0
       ELSE LET i == CHOOSE i \in differ : \A j \in differ : i <= j
            IN PartOrZero(partsA, i) - PartOrZero(partsB, i)

\* Array.prototype.sort with that comparator: ascending and stable
SortByChain(devs, list) ==
    LET Before(j, i) ==
            \/ CompareChains(devs[list[j]].portChain, devs[list[i]].portChain) < 0
            \/ /\ CompareChains(devs[list[j]].portChain, devs[list[i]].portChain) = 0
               /\ j < i
    IN [p \in 1..Len(list) |->
          list[CHOOSE i \in 1..Len(list) :
                  Cardinality({j \in 1..Len(list) : Before(j, i)}) = p - 1]]

getDevicesByPortChainPrefix(devs, ord, prefix) ==
    LET Matches(k) == PrefixMatches(devs[k].portChain, prefix)
    IN SortByChain(devs, SelectSeq(ord, Matches))

\* lines 504-507 extending the chain of every entry that has a channel index
ExtendedChainAlways(device, comInfo) ==
    IF comInfo.channel # 0
    THEN device.portChain \o <<"-">> \o ToStr(comInfo.channel)
    ELSE device.portChain

\* lines 504-507
ExtendedChain(device, comInfo) ==
    IF Len(device.comPorts) > 1 /\ comInfo.channel # 0
    THEN device.portChain \o <<"-">> \o ToStr(comInfo.channel)
    ELSE device.portChain

\* lines 509-519
ComPortEntry(devs, entry) ==
    [port      |-> entry.comInfo.port,
     vid       |-> devs[entry.device].vid,
     portChain |-> ExtendedChain(devs[entry.device], entry.comInfo),
     channel   |-> entry.comInfo.channel,
     role      |-> entry.comInfo.role]

getComPortList(devs, cmap) ==
    SortComPortList([i \in DOMAIN cmap |-> ComPortEntry(devs, cmap[i])])

\* A query changes nothing of the tree, so one query per explored pass shows
\* all there is to see: reply is NoReply until the query is made.
\* the port chains the queries are asked for: every chain of the map, the
\* empty string, and two chains that may be in no tree
QueryChains ==
    {devices[k].portChain : k \in DOMAIN devices} \cup {<< >>, <<"2">>, <<"1", "-", "1">>}

GetDeviceByPortChain ==
    /\ pc = "done"
    /\ reply = NoReply
    /\ \E portChain \in QueryChains :
          reply' = [op |-> "getDeviceByPortChain", arg |-> portChain,
                    value |-> getDeviceByPortChain(devices, order, portChain)]
    /\ UNCHANGED <<devices, order, comPorts, comPortMap, rootHubs, pc,
                   strategy, parentMap, refetched, console, useSlowPath, calls, stack, cursor, visits>>

GetDevicesByPortChainPrefix ==
    /\ pc = "done"
    /\ reply = NoReply
    /\ \E prefix \in QueryChains :
          reply' = [op |-> "getDevicesByPortChainPrefix", arg |-> prefix,
                    value |-> getDevicesByPortChainPrefix(devices, order, prefix)]
    /\ UNCHANGED <<devices, order, comPorts, comPortMap, rootHubs, pc,
                   strategy, parentMap, refetched, console, useSlowPath, calls, stack, cursor, visits>>

GetComPortList ==
    /\ pc = "done"
    /\ reply = NoReply
    /\ reply' = [op |-> "getComPortList", arg |-> << >>,
                 value |-> getComPortList(devices, comPortMap)]
    /\ UNCHANGED <<devices, order, comPorts, comPortMap, rootHubs, pc,
                   strategy, parentMap, refetched, console, useSlowPath, calls, stack, cursor, visits>>

\* lines 560-567: the row of a device.  The row of the code carries no
\* reference to its device; the field device is kept here to tell which node a
\* row was made of.
TableRow(devs, k) ==
    [device    |-> k,
     vid       |-> devs[k].vid,
     comPorts  |-> [i \in DOMAIN devs[k].comPorts |-> devs[k].comPorts[i].port],
     portChain |-> devs[k].portChain,
     isHub     |-> devs[k].isHub]


\* line 553: a device of vendor ROOT ends the walk of its branch
IsSkipped(dev) == dev.vid = "ROOT"

\* lines 552-572
RECURSIVE collectDevices(_, _)
RECURSIVE CollectList(_, _, _)
collectDevices(devs, k) ==
    IF IsSkipped(devs[k]) THEN << >>
    ELSE <<TableRow(devs, k)>> \o CollectList(devs, devs[k].children, 1)

CollectList(devs, list, i) ==
    IF i > Len(list) THEN << >>
    ELSE collectDevices(devs, list[i]) \o CollectList(devs, list, i + 1)

\* lines 574-578
RECURSIVE CollectRoots(_, _, _)
CollectRoots(devs, roots, i) ==
    IF i > Len(roots) THEN << >>
    ELSE CollectList(devs, devs[roots[i]].children, 1) \o CollectRoots(devs, roots, i + 1)

getDeviceTable(devs, roots) == CollectRoots(devs, roots, 1)

GetDeviceTable ==
    /\ pc = "done"
    /\ reply = NoReply
    /\ reply' = [op |-> "getDeviceTable", arg |-> << >>,
                 value |-> getDeviceTable(devices, rootHubs)]
    /\ UNCHANGED <<devices, order, comPorts, comPortMap, rootHubs, pc,
                   strategy, parentMap, refetched, console, useSlowPath, calls, stack, cursor, visits>>

(***************************************************************************)
(* The acquisition layer: getUSBTreeData (lines 257-271) calls the pnputil *)
(* script first unless useSlowPath is set, and the PowerShell script when  *)
(* the first call throws.  Each call is an execSync of an external process *)
(* (usb-tree.ts 194-198, usb-tree-pnputil.ts 148-152) with the options     *)
(* encoding and maxBuffer and no timeout: the call blocks until the        *)
(* process ends.  At pc = "pnputil" or "powershell" the pass is inside     *)
(* such a call; the call returning or throwing is a step of the process,   *)
(* not of the program.                                                     *)
(***************************************************************************)
\* both scripts print the vendor code ROOT for ROOT_HUB30 only, and then isHub
\* is True (usb-tree.ts 118-129, usb-tree-pnputil.ts 64-75)
ScriptKinds == {kind \in Kinds : kind.vid = "ROOT" => kind.isHub}

ScriptDeviceInputs(n) ==
    {attrs \in [1..n -> [kind : ScriptKinds, port : PortNumbers, parent : 0..(n + 1)]] :
        \A i \in 1..n : attrs[i].parent # i}

\* lines 58-64: the batch fills $parentMap, keyed by the upper-cased instance
\* id, for the devices it returns data for (those of inBatch that have a parent)
BatchParentMap(n, attrs, inBatch) ==
    [k \in {ToUpperCase(DevicePath(i)) : i \in {j \in inBatch : attrs[j].parent # 0}} |->
        LET i == CHOOSE i \in 1..n : ToUpperCase(DevicePath(i)) = k
        IN RefPath(attrs[i].parent, n)]

\* line 98
BatchParent(pmap, path) ==
    IF ToUpperCase(path) \in DOMAIN pmap THEN pmap[ToUpperCase(path)] ELSE NoPath

\* lines 97-110 without the safety net of lines 100-108
ScriptParentPathBatchOnly(pmap, path, single) == BatchParent(pmap, path)

\* lines 97-110: the parent of the batch, else the parent the individual
\* fetch returns (single), else ""
ScriptParentPath(pmap, path, single) ==
    IF BatchParent(pmap, path) # NoPath THEN BatchParent(pmap, path) ELSE single

\* lines 101-108: the devices the individual fetch is made for, each with the
\* parent the fetch returns (no path when it returns no data)
Refetched(pmap, n, attrs) ==
    [p \in {DevicePath(i) : i \in {j \in 1..n : BatchParent(pmap, DevicePath(j)) = NoPath}} |->
        LET i == CHOOSE i \in 1..n : DevicePath(i) = p
        IN RefPath(attrs[i].parent, n)]

\* usb-tree-pnputil.ts 50-56: the parent of the /relations query, else ""
PnputilParentPath(single) == single

\* the two maps parsed from the output of a script
Receive(n, attrs, parents, cps) ==
    /\ order' = [i \in 1..n |-> ToUpperCase(DevicePath(i))]
    /\ devices' = [k \in {ToUpperCase(DevicePath(i)) : i \in 1..n} |->
                     LET i == CHOOSE i \in 1..n : ToUpperCase(DevicePath(i)) = k
                     IN ParsedLine(i, attrs[i], parents[i])]
    /\ comPorts' = cps

\* lines 261-270 with the test of line 261 left out
FirstSourceAlwaysFast(slow) == "pnputil"

\* lines 261-270: the source getUSBTreeData calls first
FirstSource(slow) == IF slow THEN "powershell" ELSE "pnputil"

\* getUSBTreeData(useSlowPath): inside the first call
PassInit ==
    /\ useSlowPath \in BOOLEAN
    /\ pc = FirstSource(useSlowPath)
    /\ calls = Called(<< >>, FirstSource(useSlowPath))
    /\ stack = << >>
    /\ cursor = 0
    /\ visits = NoVisits
    /\ devices = [k \in {} |-> 0]
    /\ order = << >>
    /\ comPorts = << >>
    /\ comPortMap = << >>
    /\ rootHubs = << >>
    /\ strategy = "none"
    /\ parentMap = EmptyMap
    /\ refetched = EmptyMap
    /\ console = << >>
    /\ reply = NoReply

\* the outputs explored: up to MaxDevices devices without COM port, or up to
\* MaxBridgeDevices devices with up to MaxComPorts COM ports
PnputilReturnsUpTo(maxDevices, maxBridgeDevices, maxComPorts) ==
    /\ pc = "pnputil"
    /\ \E n \in 0..maxDevices : \E attrs \in ScriptDeviceInputs(n) :
       \E cps \in {<< >>} \cup (IF n \in 1..maxBridgeDevices
                                THEN UNION {ComPortInputs(n, m) : m \in 1..maxComPorts}
                                ELSE {}) :
          Receive(n, attrs,
                  [i \in 1..n |-> PnputilParentPath(RefPath(attrs[i].parent, n))], cps)
    /\ strategy' = "pnputil"
    /\ calls' = Ended(calls, "returned")
    /\ pc' = "start"
    /\ UNCHANGED <<comPortMap, rootHubs, parentMap, refetched, console, reply, useSlowPath, stack, cursor, visits>>

PnputilReturns == PnputilReturnsUpTo(MaxDevices, MaxBridgeDevices, MaxComPorts)

\* lines 263-267: the error is caught, a warning is written, the slow path runs
PnputilThrows ==
    /\ pc = "pnputil"
    /\ console' = Append(console,
                      [text |-> "Pnputil enumeration failed", device |-> NoPath,
                       parent |-> NoPath])
    /\ calls' = Called(Ended(calls, "threw"), "powershell")
    /\ pc' = "powershell"
    /\ UNCHANGED <<devices, order, comPorts, comPortMap, rootHubs, strategy,
                   parentMap, refetched, reply, useSlowPath, stack, cursor, visits>>

PowerShellReturnsUpTo(maxDevices) ==
    /\ pc = "powershell"
    /\ \E n \in 0..maxDevices : \E attrs \in ScriptDeviceInputs(n) :
       \E inBatch \in SUBSET (1..n) :
          LET pmap == BatchParentMap(n, attrs, inBatch)
          IN /\ Receive(n, attrs,
                        [i \in 1..n |-> ScriptParentPath(pmap, DevicePath(i),
                                                         RefPath(attrs[i].parent, n))],
                        << >>)
             /\ parentMap' = pmap
             /\ refetched' = Refetched(pmap, n, attrs)
    /\ strategy' = "powershell"
    /\ calls' = Ended(calls, "returned")
    /\ pc' = "start"
    /\ UNCHANGED <<comPortMap, rootHubs, console, reply, useSlowPath, stack, cursor, visits>>

PowerShellReturns == PowerShellReturnsUpTo(MaxBridgeDevices)

\* lines 247-250, 270: the error of the slow path reaches the caller
PowerShellThrows ==
    /\ pc = "powershell"
    /\ calls' = Ended(calls, "threw")
    /\ pc' = "failed"
    /\ UNCHANGED <<devices, order, comPorts, comPortMap, rootHubs, strategy,
                   parentMap, refetched, console, reply, useSlowPath, stack, cursor, visits>>

PassNext ==
    \/ PnputilReturns
    \/ PnputilThrows
    \/ PowerShellReturns
    \/ PowerShellThrows
    \/ BuildUSBTree
    \/ GetDeviceByPortChain
    \/ GetDevicesByPortChainPrefix
    \/ GetComPortList
    \/ GetDeviceTable

PassSpec == PassInit /\ [][PassNext]_vars

(***************************************************************************)
(* The pass under the scheduling the code has, on outputs of at most       *)
(* MaxLiveDevices devices.  buildUSBTree is synchronous code: once it has  *)
(* its records it runs to its end, hence the weak fairness of its step.    *)
(* Nothing in the program makes the external process end: a step of the    *)
(* process carries no fairness.                                            *)
(***************************************************************************)
LiveNext ==
    \/ PnputilReturnsUpTo(MaxLiveDevices, MaxLiveDevices, MaxLiveDevices)
    \/ PnputilThrows
    \/ PowerShellReturnsUpTo(MaxLiveDevices)
    \/ PowerShellThrows
    \/ BuildUSBTree

LivePassSpec == PassInit /\ [][LiveNext]_vars /\ WF_vars(BuildUSBTree)

(***************************************************************************)
(* buildUSBTree step by step, on inputs that also hold devices naming      *)
(* themselves or each other as parent.  Passes 1 to 5 are loops over maps  *)
(* that do not grow and are taken as one step.  Pass 6 is the recursion of *)
(* buildPortChain: stack holds the calls still to be made, in the order    *)
(* the code makes them, and a step is one call (lines 337-342) that sets   *)
(* the chain of its device and leaves one pending call per child (lines    *)
(* 343-345).  Pass 7 is the loop of line 354: a step is one iteration,     *)
(* over the map entry at cursor, and the loop ends when the cursor has     *)
(* passed the last entry of the map as it then is.  The code is            *)
(* synchronous: a step that can be made is made.                           *)
(***************************************************************************)
MaxLoopDevices == 2
MaxVisits == 2
MaxMapSize == 6

\* what the passes 5 to 7 tell apart: a hub and a device that is none
LoopKinds == {[vid |-> "ROOT", isHub |-> TRUE], [vid |-> "0403", isHub |-> FALSE]}

\* a device names as its parent nothing, any device (itself too), or a path of
\* no device
LoopDeviceInputs(n) ==
    [1..n -> [kind : LoopKinds, port : {1}, parent : 0..(n + 1)]]

LoopComPortInputs(n, m) ==
    {[j \in 1..m |-> ParsedComPort(ComLabels[m + 1 - j], owner[j], channel[j], n)] :
        owner \in [1..m -> 1..n], channel \in [1..m -> {0}]}

StepInit ==
    /\ \E n \in 1..MaxLoopDevices, m \in 0..MaxComPorts :
       \E attrs \in LoopDeviceInputs(n), cps \in LoopComPortInputs(n, m) :
          InputOf(n, attrs, cps)

\* lines 278-333
LinkAndFindRoots ==
    /\ pc = "start"
    /\ \E linked \in {BeforeChains(devices, order, comPorts)} :
          /\ devices' = linked.devices
          /\ comPortMap' = linked.comPortMap
          /\ rootHubs' = linked.rootHubs
          /\ stack' = [i \in DOMAIN linked.rootHubs |->
                          [device |-> linked.rootHubs[i], parentChain |-> << >>]]
    /\ console' = console \o LinkLog(1, order, devices)
    /\ visits' = [k \in DOMAIN devices |-> 0]
    /\ pc' = "chains"
    /\ UNCHANGED <<order, comPorts, strategy, parentMap, refetched, reply,
                   useSlowPath, calls, cursor>>

\* lines 336-346: one call of buildPortChain
BuildPortChainCall ==
    /\ pc = "chains"
    /\ stack # << >>
    /\ visits[Head(stack).device] < MaxVisits
    /\ LET k == Head(stack).device
           parentChain == Head(stack).parentChain
           chain == IF parentChain # << >>
                    THEN ChildChain(parentChain, devices[k].portNumber)
                    ELSE RootChain
       IN /\ devices' = [devices EXCEPT ![k].portChain = chain]
          /\ stack' = [i \in DOMAIN devices[k].children |->
                          [device |-> devices[k].children[i], parentChain |-> chain]]
                      \o Tail(stack)
          /\ visits' = [visits EXCEPT ![k] = @ + 1]
    /\ UNCHANGED <<order, comPorts, comPortMap, rootHubs, pc, strategy, parentMap,
                   refetched, console, reply, useSlowPath, calls, cursor>>

\* lines 348-354: the last call has returned, the loop of pass 7 starts
ChainsBuilt ==
    /\ pc = "chains"
    /\ stack = << >>
    /\ cursor' = 1
    /\ pc' = "synth"
    /\ UNCHANGED <<devices, order, comPorts, comPortMap, rootHubs, strategy,
                   parentMap, refetched, console, reply, useSlowPath, calls,
                   stack, visits>>

\* lines 354-393: one iteration of the loop over devices.values()
SynthesisIteration ==
    /\ pc = "synth"
    /\ cursor <= Len(order)
    /\ cursor <= MaxMapSize
    /\ \E st \in {SynthDevice(order[cursor], [devices |-> devices, order |-> order,
                                              comPortMap |-> comPortMap])} :
          /\ devices' = st.devices
          /\ order' = st.order
          /\ comPortMap' = st.comPortMap
    /\ cursor' = cursor + 1
    /\ UNCHANGED <<comPorts, rootHubs, pc, strategy, parentMap, refetched,
                   console, reply, useSlowPath, calls, stack, visits>>

\* line 395
ReturnTree ==
    /\ pc = "synth"
    /\ cursor > Len(order)
    /\ pc' = "done"
    /\ UNCHANGED <<devices, order, comPorts, comPortMap, rootHubs, strategy,
                   parentMap, refetched, console, reply, useSlowPath, calls,
                   stack, cursor, visits>>

StepNext ==
    \/ LinkAndFindRoots
    \/ BuildPortChainCall
    \/ ChainsBuilt
    \/ SynthesisIteration
    \/ ReturnTree

StepSpec == StepInit /\ [][StepNext]_vars /\ WF_vars(StepNext)

(***************************************************************************)
(* Vocabulary of the properties.                                           *)
(***************************************************************************)
Done == pc = "done"

Keys == DOMAIN devices

\* a virtual child made by pass 7: its path carries the '#' of line 362
IsSynthetic(k) == \E i \in DOMAIN k : k[i] = "#"

InputKeys == {k \in Keys : ~IsSynthetic(k)}

\* the nodes below k, k first, in the order of the children lists
RECURSIVE Preorder(_)
RECURSIVE PreorderOfList(_, _)
Preorder(k) == <<k>> \o PreorderOfList(devices[k].children, 1)

PreorderOfList(list, i) ==
    IF i > Len(list) THEN << >>
    ELSE Preorder(list[i]) \o PreorderOfList(list, i + 1)

\* every node reachable from a declared root, root by root
TreeNodes == PreorderOfList(rootHubs, 1)

Count(seq, x) == Cardinality({i \in DOMAIN seq : seq[i] = x})

ChainsDistinct(nodes) ==
    \A i, j \in DOMAIN nodes :
        i # j => devices[nodes[i]].portChain # devices[nodes[j]].portChain

\* path p names device j, ignoring case
Names(p, j) == ToUpperCase(p) = ToUpperCase(devices[j].instancePath)

DeclaresParent(k) == devices[k].parentPath # NoPath

ParentPresent(k) == \E j \in Keys : Names(devices[k].parentPath, j)

RECURSIVE Ancestors(_, _)
Ancestors(k, fuel) ==
    IF fuel = 0 \/ ~DeclaresParent(k) \/ ~ParentPresent(k) THEN {}
    ELSE LET p == CHOOSE j \in Keys : Names(devices[k].parentPath, j)
         IN {p} \cup Ancestors(p, fuel - 1)

Acyclic == \A k \in InputKeys : k \notin Ancestors(k, Cardinality(Keys))

Depth(k) == Cardinality(Ancestors(k, Cardinality(Keys)))

EveryDeclaredParentPresent ==
    \A k \in InputKeys : DeclaresParent(k) => ParentPresent(k)

EveryInputDeviceOnceInTree == \A k \in InputKeys : Count(TreeNodes, k) = 1

(***************************************************************************)
(* C1 as stated: if every declared parent path names a device of the input *)
(* collection, every input device is reachable from a declared root and    *)
(* occurs exactly once among the reachable nodes.  Refuted: a device that  *)
(* declares no parent and is neither a hub nor a sentinel-vendor device is *)
(* no root and hangs under nothing.                                        *)
(***************************************************************************)
C1_NoOrphanLoss_AsStated ==
    Done /\ EveryDeclaredParentPresent => EveryInputDeviceOnceInTree

(***************************************************************************)
(* C1 amended: if every declared parent path names a device of the input   *)
(* collection, the parent references contain no cycle, and every device    *)
(* that declares no parent is a hub or has the sentinel vendor code, then  *)
(* every input device is reachable from a declared root and occurs exactly *)
(* once among the reachable nodes.                                         *)
(***************************************************************************)
CompleteInput ==
    /\ EveryDeclaredParentPresent
    /\ Acyclic
    /\ \A k \in InputKeys :
          ~DeclaresParent(k) => devices[k].isHub \/ devices[k].vid = "ROOT"

C1_NoOrphanLoss ==
    Done /\ CompleteInput => EveryInputDeviceOnceInTree

\* a complete input of three devices, one of them two levels below its root
C1_Witness ==
    /\ Done
    /\ CompleteInput
    /\ Cardinality(InputKeys) = 3
    /\ \E k \in InputKeys : Depth(k) = 2 /\ Count(TreeNodes, k) = 1

(***************************************************************************)
(* C2 as stated: no two distinct nodes of the returned tree (the nodes     *)
(* reachable from the declared roots) have the same portChain.             *)
(***************************************************************************)
C2_ChainsUniqueInTree == Done => ChainsDistinct(TreeNodes)

(***************************************************************************)
(* C3 as stated: within the subtree of one declared root no two nodes have *)
(* the same portChain.  Refuted by two children of one node with the same  *)
(* port number.                                                            *)
(***************************************************************************)
C3_ChainsUniquePerRoot_AsStated ==
    Done => \A r \in Range(rootHubs) : ChainsDistinct(Preorder(r))

(***************************************************************************)
(* C3 amended: within the subtree of one declared root, if the children of *)
(* every node of that subtree have pairwise distinct port numbers, no two  *)
(* nodes of the subtree have the same portChain (synthetic channel         *)
(* children included).                                                     *)
(***************************************************************************)
SiblingPortsDistinct(k) ==
    LET list == devices[k].children
    IN \A i, j \in DOMAIN list :
          i # j => devices[list[i]].portNumber # devices[list[j]].portNumber

C3_ChainsUniquePerRoot ==
    Done => \A r \in Range(rootHubs) :
                (\A k \in Range(Preorder(r)) : SiblingPortsDistinct(k))
                    => ChainsDistinct(Preorder(r))

\* a root whose subtree holds a genuine child and that child's two channel children
C3_Witness ==
    /\ Done
    /\ \E r \in Range(rootHubs) :
          /\ \A k \in Range(Preorder(r)) : SiblingPortsDistinct(k)
          /\ \E k \in Range(Preorder(r)) :
                /\ k # r
                /\ ~IsSynthetic(k)
                /\ Len(devices[k].children) = 2
                /\ \A i \in 1..2 : IsSynthetic(devices[k].children[i])

(***************************************************************************)
(* C4 as stated: for every node c in the children list of any node p,      *)
(* reachable from a root or not, c.portChain = p.portChain + "-" +         *)
(* c.portNumber.  Refuted by the genuine child of an orphan: both chains   *)
(* stay empty.                                                             *)
(***************************************************************************)
ChainExtends(p, c) ==
    devices[c].portChain =
        devices[p].portChain \o <<"-">> \o ToStr(devices[c].portNumber)

C4_ChainConsistency_AsStated ==
    Done => \A p \in Keys : \A c \in Range(devices[p].children) : ChainExtends(p, c)

(***************************************************************************)
(* C4 amended: for every node c in the children list of a node p, where p  *)
(* is reachable from a declared root or c is a synthetic channel child,    *)
(* c.portChain = p.portChain + "-" + c.portNumber.                         *)
(***************************************************************************)
C4_ChainConsistency ==
    Done => \A p \in Keys : \A c \in Range(devices[p].children) :
                p \in Range(TreeNodes) \/ IsSynthetic(c) => ChainExtends(p, c)

\* a reachable node with a genuine child and a channel child
C4_Witness ==
    /\ Done
    /\ \E p \in Range(TreeNodes) :
          /\ \E c \in Range(devices[p].children) : IsSynthetic(c)
          /\ \E c \in Range(devices[p].children) : ~IsSynthetic(c)

(***************************************************************************)
(* C5: after buildUSBTree the children list of every node is               *)
(* non-decreasing in portNumber, also where pass 7 appended channel        *)
(* children after the sort of pass 4.                                      *)
(***************************************************************************)
C5_ChildrenSorted ==
    Done => \A k \in Keys :
                LET list == devices[k].children
                IN \A i, j \in DOMAIN list :
                      i < j => devices[list[i]].portNumber <= devices[list[j]].portNumber

\* a channel child stands before a genuine child of a larger port number
C5_Witness ==
    /\ Done
    /\ \E k \in Keys :
          LET list == devices[k].children
          IN \E i, j \in DOMAIN list :
                /\ i < j
                /\ IsSynthetic(list[i])
                /\ ~IsSynthetic(list[j])
                /\ devices[list[i]].portNumber < devices[list[j]].portNumber

(***************************************************************************)
(* The channels of a device as the input gives them: the entries of the    *)
(* COM-port map whose owning path names the device, ignoring case.  The    *)
(* position of a channel is its 1-based rank by label number among them.   *)
(***************************************************************************)
OwnedPorts(k) == {cp \in Range(comPorts) : Names(cp.instancePath, k)}

PositionOf(cp, k) ==
    1 + Cardinality({other \in OwnedPorts(k) : ComNum(other.port) < ComNum(cp.port)})

SyntheticChildren(k) == {c \in Range(devices[k].children) : IsSynthetic(c)}

\* c is a channel child that carries exactly the channel cp
Represents(c, cp) ==
    /\ IsSynthetic(c)
    /\ Len(devices[c].comPorts) = 1
    /\ devices[c].comPorts[1].port = cp.port
    /\ devices[c].comPorts[1].channel = cp.channel

(***************************************************************************)
(* C6 as stated: every node either has a non-empty channel list and no     *)
(* channel child, or an empty channel list and, for each of its channels,  *)
(* a channel child whose portNumber equals that channel's index.  Refuted  *)
(* by a multi-channel device with a channel that has no index: its child   *)
(* is numbered by position.                                                *)
(***************************************************************************)
C6_ChannelExclusivity_AsStated ==
    Done => \A k \in Keys :
        \/ /\ devices[k].comPorts # << >>
           /\ SyntheticChildren(k) = {}
        \/ /\ devices[k].comPorts = << >>
           /\ \A cp \in OwnedPorts(k) :
                 \E c \in Range(devices[k].children) :
                    Represents(c, cp) /\ devices[c].portNumber = cp.channel

(***************************************************************************)
(* C6 amended: every node either has a non-empty channel list and no       *)
(* channel child, or an empty channel list and, for each of its channels,  *)
(* a channel child whose portNumber equals that channel's index, or, when  *)
(* the channel has no index, the channel's 1-based position among the      *)
(* device's channels ordered by label number.                              *)
(***************************************************************************)
ExpectedNumber(cp, k) == IF cp.channel # 0 THEN cp.channel ELSE PositionOf(cp, k)

C6_ChannelExclusivity ==
    Done => \A k \in Keys :
        \/ /\ devices[k].comPorts # << >>
           /\ SyntheticChildren(k) = {}
        \/ /\ devices[k].comPorts = << >>
           /\ \A cp \in OwnedPorts(k) :
                 \E c \in Range(devices[k].children) :
                    Represents(c, cp) /\ devices[c].portNumber = ExpectedNumber(cp, k)

\* an expanded device with one channel that has an index and one that is
\* numbered by its position
C6_Witness ==
    /\ Done
    /\ \E k \in Keys :
          /\ devices[k].comPorts = << >>
          /\ Cardinality(OwnedPorts(k)) = 2
          /\ \E cp \in OwnedPorts(k) : cp.channel = 0
          /\ \E cp \in OwnedPorts(k) : cp.channel # 0
          /\ \A cp \in OwnedPorts(k) :
                \E c \in Range(devices[k].children) :
                    Represents(c, cp) /\ devices[c].portNumber = ExpectedNumber(cp, k)

(***************************************************************************)
(* C7: after buildUSBTree no device carries more than one channel; a       *)
(* device that had k > 1 channels has an empty channel list and exactly k  *)
(* channel children, one per channel; channel children exist only under    *)
(* such devices and are never expanded themselves (no children, one        *)
(* channel), although pass 7 inserts them into the map it iterates.        *)
(***************************************************************************)
C7_MultiChannelExpanded ==
    Done =>
        /\ \A k \in Keys : Len(devices[k].comPorts) <= 1
        /\ \A k \in InputKeys :
              Cardinality(OwnedPorts(k)) > 1 =>
                 /\ devices[k].comPorts = << >>
                 /\ Cardinality(SyntheticChildren(k)) = Cardinality(OwnedPorts(k))
                 /\ \A c \in SyntheticChildren(k) : Count(devices[k].children, c) = 1
                 /\ \A cp \in OwnedPorts(k) :
                       Cardinality({c \in SyntheticChildren(k) : Represents(c, cp)}) = 1
        /\ \A c \in Keys \ InputKeys :
              /\ devices[c].children = << >>
              /\ Len(devices[c].comPorts) = 1
              /\ \E k \in InputKeys :
                    c \in SyntheticChildren(k) /\ Cardinality(OwnedPorts(k)) > 1

\* a device with two channels, expanded, with its channel children in the map
C7_Witness ==
    /\ Done
    /\ \E k \in InputKeys :
          /\ Cardinality(OwnedPorts(k)) = 2
          /\ Cardinality(SyntheticChildren(k)) = 2
          /\ \A c \in SyntheticChildren(k) : \E i \in DOMAIN order : order[i] = c

(***************************************************************************)
(* C8: after buildUSBTree every device reachable from a declared root      *)
(* through children lists has a non-empty portChain.                       *)
(***************************************************************************)
C8_ReachableHasChain ==
    Done => \A k \in Range(TreeNodes) : devices[k].portChain # << >>

\* a root with a genuine descendant and a channel child below it
C8_Witness ==
    /\ Done
    /\ \E k \in Range(TreeNodes) : IsSynthetic(k) /\ devices[k].portChain # << >>
    /\ \E k \in Range(TreeNodes) :
          ~IsSynthetic(k) /\ k \notin Range(rootHubs) /\ devices[k].portChain # << >>

(***************************************************************************)
(* C9: a device is in rootHubs if and only if its parent path is absent or *)
(* names no device of the collection (ignoring case) and it is a hub or    *)
(* has the root sentinel vendor code.                                      *)
(***************************************************************************)
C9_RootSelection ==
    Done => \A k \in Keys :
        (k \in Range(rootHubs))
            <=> /\ ~DeclaresParent(k) \/ ~ParentPresent(k)
                /\ devices[k].isHub \/ devices[k].vid = "ROOT"

\* a sentinel-vendor non-hub with an unresolved parent path is a root, and a
\* hub whose parent path names a device in another case is none
C9_Witness ==
    /\ Done
    /\ \E k \in Range(rootHubs) :
          DeclaresParent(k) /\ ~devices[k].isHub /\ devices[k].vid = "ROOT"
    /\ \E k \in Keys \ Range(rootHubs) :
          /\ devices[k].isHub
          /\ ParentPresent(k)
          /\ \A j \in Keys : devices[j].instancePath # devices[k].parentPath

C11_RootsNumberedInSequence ==
    Done => \A i \in DOMAIN rootHubs :
                /\ devices[rootHubs[i]].portChain = ToStr(i)
                /\ \A k \in Range(Preorder(rootHubs[i])) \ {rootHubs[i]} :
                      StartsWith(devices[k].portChain, ToStr(i) \o <<"-">>)

(***************************************************************************)
(* C12 as stated: for every device whose declared parent path names no     *)
(* device of the collection, a single-item re-fetch of its parent is made  *)
(* during the pass.  Refuted: buildUSBTree only logs such a device, and    *)
(* the scripts make no individual fetch for a device whose parent they     *)
(* already have.                                                           *)
(***************************************************************************)
WasRefetched(k) == devices[k].instancePath \in DOMAIN refetched

LinkedUnder(k, h) == Count(devices[h].children, k) = 1

C12_RefetchOnUnresolvedParent_AsStated ==
    Done => \A k \in InputKeys :
                DeclaresParent(k) /\ ~ParentPresent(k) => WasRefetched(k)

(***************************************************************************)
(* C12 amended: the single-item fetch belongs to the PowerShell script and *)
(* is made exactly for the devices the batch returned no parent for; when  *)
(* it returns the path of a device of the collection (a hub, say) the      *)
(* device is linked under that device.  The pnputil script makes no such   *)
(* fetch, and buildUSBTree links a device whose declared parent path names *)
(* no device of the collection under nothing.                              *)
(***************************************************************************)
C12_RefetchOnMissingBatchParent ==
    Done =>
        /\ strategy = "pnputil" => refetched = EmptyMap
        /\ strategy = "powershell" =>
              \A k \in InputKeys :
                 /\ WasRefetched(k) <=> k \notin DOMAIN parentMap
                 /\ WasRefetched(k) =>
                       \A h \in InputKeys :
                          Names(refetched[devices[k].instancePath], h)
                             => LinkedUnder(k, h)
        /\ \A k \in InputKeys :
              DeclaresParent(k) /\ ~ParentPresent(k) =>
                 \A h \in Keys : Count(devices[h].children, k) = 0

\* the batch returned no parent for a device, the individual fetch returned
\* the path of a hub that is a declared root, and the device hangs under it
C12_Witness ==
    /\ Done
    /\ strategy = "powershell"
    /\ \E k \in InputKeys : \E h \in Range(rootHubs) :
          /\ WasRefetched(k)
          /\ devices[h].isHub
          /\ Names(refetched[devices[k].instancePath], h)
          /\ LinkedUnder(k, h)
          /\ k \in Range(TreeNodes)

(***************************************************************************)
(* C13 as stated: every device whose non-empty declared parent path names  *)
(* no device of the collection is an orphan: it is not in rootHubs, it is  *)
(* not reachable from a declared root, and a diagnostic line names it.     *)
(* Refuted by a hub with an unresolved parent path: it is a declared root. *)
(***************************************************************************)
UnresolvedParent(k) == DeclaresParent(k) /\ ~ParentPresent(k)

HasOrphanDiagnostic(k) ==
    \E i \in DOMAIN console :
        /\ console[i].text = "Orphan device"
        /\ console[i].device = devices[k].instancePath
        /\ console[i].parent = devices[k].parentPath

C13_UnresolvedParentIsOrphan_AsStated ==
    Done => \A k \in InputKeys :
                UnresolvedParent(k) =>
                    /\ k \notin Range(rootHubs)
                    /\ k \notin Range(TreeNodes)
                    /\ HasOrphanDiagnostic(k)

(***************************************************************************)
(* C13 amended: buildUSBTree has no error exit (its step on an input with  *)
(* an unresolved parent ends with the returned tree), and for every        *)
(* device whose non-empty declared parent path names no device of the      *)
(* collection a diagnostic line names the device and the path; such a      *)
(* device is neither in rootHubs nor reachable from a declared root unless *)
(* it is a hub or has the sentinel vendor code, and then it is a declared  *)
(* root with portChain "1".                                                *)
(***************************************************************************)
OrphansHandled ==
    \A k \in InputKeys :
        UnresolvedParent(k) =>
            /\ HasOrphanDiagnostic(k)
            /\ IF devices[k].isHub \/ devices[k].vid = "ROOT"
               THEN /\ Count(rootHubs, k) = 1
                    /\ devices[k].portChain = <<"1">>
               ELSE /\ k \notin Range(rootHubs)
                    /\ k \notin Range(TreeNodes)

\* a step of buildUSBTree on such an input ends with the returned tree
BuildReturnsTree ==
    pc = "start" /\ (\E k \in InputKeys : UnresolvedParent(k)) => pc' = "done"

C13_UnresolvedParentIsOrphan ==
    /\ [](Done => OrphansHandled)
    /\ [][BuildReturnsTree]_vars

\* a returned tree with a declared root and, beside it, a non-hub device with
\* an unresolved parent path and a child of its own
C13_Witness ==
    /\ Done
    /\ rootHubs # << >>
    /\ \E k \in InputKeys :
          /\ UnresolvedParent(k)
          /\ ~devices[k].isHub /\ devices[k].vid # "ROOT"
          /\ devices[k].children # << >>
          /\ HasOrphanDiagnostic(k)
          /\ k \notin Range(TreeNodes)

(***************************************************************************)
(* C14 as stated: buildUSBTree returns a tree only when the parent         *)
(* references of the input contain no cycle; on an input where devices     *)
(* name each other as parent it aborts with an error.                      *)
(***************************************************************************)
C14_CycleAborts == Done => Acyclic

(***************************************************************************)
(* C15 as stated: an enumeration pass never hangs on a call to the         *)
(* external acquisition scripts: every pass eventually finishes, with a    *)
(* tree or with an error.  Refuted: execSync is called without a timeout,  *)
(* so while the process does not end the pass stays inside the call.       *)
(***************************************************************************)
PassFinished == pc \in {"done", "failed"}

C15_PassEventuallyFinishes == <>PassFinished

(***************************************************************************)
(* Vocabulary of the properties of the queries.                            *)
(***************************************************************************)
Answered(op) == pc = "done" /\ reply.op = op

\* the devices of the map whose portChain is the chain, in map order
WithChain(chain) ==
    LET Has(k) == devices[k].portChain = chain
    IN SelectSeq(order, Has)

\* a prefix result filtered to the devices whose portChain is the chain
FilteredTo(list, chain) ==
    LET Has(k) == devices[k].portChain = chain
    IN SelectSeq(list, Has)

(***************************************************************************)
(* C16 as stated: whenever getDeviceByPortChain(tree, X) returns a device  *)
(* d, the result of getDevicesByPortChainPrefix(tree, X) filtered to the   *)
(* devices whose portChain is X is the one-element list of d.  Refuted:    *)
(* port chains are not unique in the map (every root is "1", orphans have  *)
(* the empty chain), and the filter keeps every device with the chain.     *)
(***************************************************************************)
C16_PrefixThenFilterIsExact_AsStated ==
    Answered("getDeviceByPortChain") /\ reply.value # NotFound =>
        FilteredTo(getDevicesByPortChainPrefix(devices, order, reply.arg), reply.arg)
            = <<reply.value>>

(***************************************************************************)
(* C16 amended: whenever getDeviceByPortChain(tree, X) returns a device d, *)
(* the result of getDevicesByPortChainPrefix(tree, X) filtered to the      *)
(* devices whose portChain is X is the list of all devices of the map      *)
(* whose portChain is X, in map order, and d is its first element; it is   *)
(* the one-element list of d exactly when no other device has the chain.   *)
(***************************************************************************)
C16_PrefixThenFilterIsExact ==
    Answered("getDeviceByPortChain") /\ reply.value # NotFound =>
        LET filtered == FilteredTo(
                getDevicesByPortChainPrefix(devices, order, reply.arg), reply.arg)
        IN /\ filtered = WithChain(reply.arg)
           /\ filtered # << >>
           /\ filtered[1] = reply.value
           /\ (filtered = <<reply.value>>) <=>
                 \A k \in Keys \ {reply.value} : devices[k].portChain # reply.arg

\* the exact lookup found a device below a root that has a descendant of its
\* own: the prefix result holds more than the device, the filtered one only it
C16_Witness ==
    /\ Answered("getDeviceByPortChain")
    /\ reply.value # NotFound
    /\ reply.value \in Range(TreeNodes) \ Range(rootHubs)
    /\ Len(getDevicesByPortChainPrefix(devices, order, reply.arg)) > 1
    /\ FilteredTo(getDevicesByPortChainPrefix(devices, order, reply.arg), reply.arg)
          = <<reply.value>>

(***************************************************************************)
(* C17 as stated: in the list returned by getDevicesByPortChainPrefix a    *)
(* device whose chain is a proper prefix of the chain of another returned  *)
(* device (component by component, as "1-1" of "1-1-0") stands before it,  *)
(* whatever the order of the devices in the map.                           *)
(***************************************************************************)
IsProperChainPrefix(a, b) ==
    /\ Len(Split(a)) < Len(Split(b))
    /\ \A i \in DOMAIN Split(a) : Split(a)[i] = Split(b)[i]

C17_PrefixSortsBeforeLonger ==
    Answered("getDevicesByPortChainPrefix") =>
        \A i, j \in DOMAIN reply.value :
            IsProperChainPrefix(devices[reply.value[i]].portChain,
                                devices[reply.value[j]].portChain) => i < j

(***************************************************************************)
(* C18 as stated: for a node n reachable from a declared root, with        *)
(* portChain X, getDevicesByPortChainPrefix(tree, X) returns exactly n and *)
(* its transitive descendants.  Refuted: a second reachable node with the  *)
(* chain X (a sibling with the same port number, another root) brings its  *)
(* subtree into the result.                                                *)
(***************************************************************************)
ReachableWithChain(chain) == {n \in Range(TreeNodes) : devices[n].portChain = chain}

C18_PrefixReturnsSubtree_AsStated ==
    Answered("getDevicesByPortChainPrefix") =>
        \A n \in ReachableWithChain(reply.arg) :
            Range(reply.value) = Range(Preorder(n))

(***************************************************************************)
(* C18 amended: for a node n reachable from a declared root, with          *)
(* portChain X, getDevicesByPortChainPrefix(tree, X) returns, each once,   *)
(* the nodes of the subtrees of all reachable nodes whose portChain is X:  *)
(* n and every descendant of n are included, no orphan is returned, and no *)
(* node whose chain only continues the characters of X ("1-10" for "1-1"); *)
(* the result is exactly the subtree of n when n is the only reachable     *)
(* node with the chain X.                                                  *)
(***************************************************************************)
C18_PrefixReturnsSubtree ==
    Answered("getDevicesByPortChainPrefix") /\ ReachableWithChain(reply.arg) # {} =>
        /\ Range(reply.value) =
              UNION {Range(Preorder(n)) : n \in ReachableWithChain(reply.arg)}
        /\ \A k \in Range(reply.value) : Count(reply.value, k) = 1
        /\ \A n \in ReachableWithChain(reply.arg) :
              ReachableWithChain(reply.arg) = {n}
                  => Range(reply.value) = Range(Preorder(n))

\* the prefix "1-1" names one reachable node, the result is its subtree, and
\* its sibling "1-10" is in the tree and not in the result
C18_Witness ==
    /\ Answered("getDevicesByPortChainPrefix")
    /\ reply.arg = <<"1", "-", "1">>
    /\ \E n \in ReachableWithChain(reply.arg) :
          /\ Range(reply.value) = Range(Preorder(n))
    /\ \E k \in Range(TreeNodes) :
          /\ devices[k].portChain = <<"1", "-", "1", "0">>
          /\ k \notin Range(reply.value)

(***************************************************************************)
(* C19 as stated: getDeviceByPortChain(tree, X) returns a node reachable   *)
(* from a declared root whose portChain is X when there is one, and "not   *)
(* found" otherwise, for every X, the empty string included.  Refuted: the *)
(* loop runs over the whole device map, and for the empty string it        *)
(* returns a device that no root reaches.                                  *)
(***************************************************************************)
C19_ExactLookupInTreeOnly_AsStated ==
    Answered("getDeviceByPortChain") =>
        IF ReachableWithChain(reply.arg) # {}
        THEN reply.value \in ReachableWithChain(reply.arg)
        ELSE reply.value = NotFound

(***************************************************************************)
(* C19 amended: getDeviceByPortChain(tree, X) searches the whole device    *)
(* map: it returns the first device in map order whose portChain is X and  *)
(* "not found" when the map has none.  The returned device is reachable    *)
(* from a declared root exactly when X is not empty and does not begin     *)
(* with the separator; for the empty string it is a device no root         *)
(* reaches, and for "-c" a channel child of such a device.                 *)
(***************************************************************************)
C19_ExactLookupInTreeOnly ==
    Answered("getDeviceByPortChain") =>
        /\ reply.value = NotFound <=> WithChain(reply.arg) = << >>
        /\ reply.value # NotFound =>
              /\ reply.value = WithChain(reply.arg)[1]
              /\ reply.value \in Range(TreeNodes)
                    <=> reply.arg # << >> /\ reply.arg[1] # "-"

\* asked for "-1" beside a declared root, the lookup returns a channel child
\* that no root reaches
C19_Witness ==
    /\ Answered("getDeviceByPortChain")
    /\ rootHubs # << >>
    /\ reply.arg = <<"-", "1">>
    /\ reply.value # NotFound
    /\ IsSynthetic(reply.value)
    /\ reply.value \notin Range(TreeNodes)

(***************************************************************************)
(* C20 as stated: getComPortList returns exactly one entry per COM port,   *)
(* and each entry corresponds to exactly one leaf of the tree: a node      *)
(* reachable from a declared root that has no children, carries just that  *)
(* one channel, and has the portChain of the entry.  Refuted: a COM port   *)
(* of no known device has no entry, and the device of an entry may be      *)
(* reachable from no root or have children.                                *)
(***************************************************************************)
EntriesFor(label) == {i \in DOMAIN reply.value : reply.value[i].port = label}

\* the devices that carry just the channel cp
Carriers(cp) ==
    {k \in Keys : /\ Len(devices[k].comPorts) = 1
                  /\ devices[k].comPorts[1].port = cp.port
                  /\ devices[k].comPorts[1].channel = cp.channel}

IsReachableLeaf(k) == k \in Range(TreeNodes) /\ devices[k].children = << >>

C20_OneEntryPerLeaf_AsStated ==
    Answered("getComPortList") =>
        /\ Len(reply.value) = Len(comPorts)
        /\ \A cp \in Range(comPorts) :
              /\ Cardinality(EntriesFor(cp.port)) = 1
              /\ \A i \in EntriesFor(cp.port) :
                    Cardinality({k \in Carriers(cp) :
                        /\ IsReachableLeaf(k)
                        /\ devices[k].portChain = reply.value[i].portChain}) = 1

(***************************************************************************)
(* C20 amended: getComPortList returns, in the order of the label numbers, *)
(* exactly one entry per COM port whose owning path names a device of the  *)
(* collection; each entry corresponds to exactly one device of the map,    *)
(* which carries just that one channel and has the portChain of the entry. *)
(* That device is a leaf reachable from a declared root exactly when the   *)
(* owning device is reachable from a declared root and either has several  *)
(* channels (the device of the entry is then its channel child) or has no  *)
(* children.                                                               *)
(***************************************************************************)
AttachedPorts == {cp \in Range(comPorts) : \E k \in InputKeys : Names(cp.instancePath, k)}

OwnerOf(cp) == CHOOSE k \in InputKeys : Names(cp.instancePath, k)

C20_OneEntryPerLeaf ==
    Answered("getComPortList") =>
        /\ Len(reply.value) = Cardinality(AttachedPorts)
        /\ \A i, j \in DOMAIN reply.value :
              i < j => ComNum(reply.value[i].port) < ComNum(reply.value[j].port)
        /\ \A cp \in AttachedPorts :
              /\ Cardinality(EntriesFor(cp.port)) = 1
              /\ Cardinality(Carriers(cp)) = 1
              /\ \A i \in EntriesFor(cp.port) : \A k \in Carriers(cp) :
                    /\ reply.value[i].portChain = devices[k].portChain
                    /\ reply.value[i].channel = cp.channel
                    /\ IsReachableLeaf(k) <=>
                          /\ OwnerOf(cp) \in Range(TreeNodes)
                          /\ \/ Cardinality(OwnedPorts(OwnerOf(cp))) > 1
                             \/ devices[OwnerOf(cp)].children = << >>

\* two entries in the order of their numbers although the input lists them the
\* other way round, each for a channel child below a declared root
C20_Witness ==
    /\ Answered("getComPortList")
    /\ Len(reply.value) = 2
    /\ Len(comPorts) = 2
    /\ ComNum(comPorts[1].port) > ComNum(comPorts[2].port)
    /\ \A cp \in AttachedPorts : \E k \in Carriers(cp) :
          IsSynthetic(k) /\ IsReachableLeaf(k)

(***************************************************************************)
(* C21: getDeviceTable returns exactly one row for every node reachable    *)
(* from a declared root that is not a device of vendor ROOT, in the        *)
(* pre-order of the walk that starts at the children of each declared      *)
(* root; none is left out, even below a device of vendor ROOT that is not  *)
(* a declared root.  Refuted by the code: line 553 returns before the      *)
(* children of such a device are visited.                                  *)
(***************************************************************************)
RECURSIVE PreorderBelowRoots(_)
PreorderBelowRoots(i) ==
    IF i > Len(rootHubs) THEN << >>
    ELSE PreorderOfList(devices[rootHubs[i]].children, 1) \o PreorderBelowRoots(i + 1)

ExpectedTableNodes ==
    SelectSeq(PreorderBelowRoots(1), LAMBDA k : devices[k].vid # "ROOT")

C21_TableHasEveryNonRootNode ==
    Answered("getDeviceTable") =>
        [i \in DOMAIN reply.value |-> reply.value[i].device] = ExpectedTableNodes

(***************************************************************************)
(* C22: source selection follows the dual-path protocol.  With useSlowPath *)
(* false the fast source (pnputil) is called first and the slow source     *)
(* (PowerShell) is called only, and at once, when the fast one has thrown; *)
(* with useSlowPath true the fast source is never called; whenever the     *)
(* slow source throws, the pass has failed and no tree is returned.        *)
(***************************************************************************)
CallsOf(source) == {i \in DOMAIN calls : calls[i].source = source}

SlowSourceThrew == \E i \in CallsOf("powershell") : calls[i].outcome = "threw"

NoTreeReturned ==
    /\ pc = "failed"
    /\ DOMAIN devices = {}
    /\ rootHubs = << >>
    /\ comPortMap = << >>
    /\ reply = NoReply

C22_DualPathProtocol ==
    /\ ~useSlowPath =>
          /\ CallsOf("pnputil") = {1}
          /\ CallsOf("powershell") \subseteq {2}
          /\ calls[1].outcome = "threw" <=> CallsOf("powershell") = {2}
    /\ useSlowPath => CallsOf("pnputil") = {} /\ CallsOf("powershell") = {1}
    /\ SlowSourceThrew <=> pc = "failed"
    /\ SlowSourceThrew => NoTreeReturned
    /\ Done => calls[Len(calls)].outcome = "returned"

\* the fast source has thrown, the slow one was called after it and has thrown
\* too: the pass has failed without a tree
C22_Witness ==
    /\ ~useSlowPath
    /\ Len(calls) = 2
    /\ calls[1] = [source |-> "pnputil", outcome |-> "threw"]
    /\ calls[2] = [source |-> "powershell", outcome |-> "threw"]
    /\ pc = "failed"

(***************************************************************************)
(* C23 as stated: the channel children of a device with more than one      *)
(* channel are created in the order of their channel indexes, each with    *)
(* portNumber equal to its channel's index (or, without an index, its      *)
(* 1-based position in the order of creation) and portChain equal to the   *)
(* parent's portChain, "-" and that number.  Refuted: the children are     *)
(* created in the order of the label numbers, so a channel of index 2 is   *)
(* created before a channel of index 1 that has the larger label.          *)
(***************************************************************************)
PosInOrder(k) == CHOOSE i \in DOMAIN order : order[i] = k

CreatedBefore(c, d) == PosInOrder(c) < PosInOrder(d)

\* the 1-based position of channel child c among those of k, in creation order
CreationRank(c, k) ==
    1 + Cardinality({d \in SyntheticChildren(k) : CreatedBefore(d, c)})

ChannelOf(c) == devices[c].comPorts[1]

IsExpanded(k) == k \in InputKeys /\ Cardinality(OwnedPorts(k)) > 1

NumberedAndChained(c, k) ==
    /\ devices[c].portNumber =
          IF ChannelOf(c).channel # 0 THEN ChannelOf(c).channel ELSE CreationRank(c, k)
    /\ devices[c].portChain =
          devices[k].portChain \o <<"-">> \o ToStr(devices[c].portNumber)

C23_ChannelChildrenInIndexOrder_AsStated ==
    Done => \A k \in Keys : IsExpanded(k) =>
        /\ \A c, d \in SyntheticChildren(k) :
              /\ CreatedBefore(c, d)
              /\ ChannelOf(c).channel # 0
              /\ ChannelOf(d).channel # 0
              => ChannelOf(c).channel <= ChannelOf(d).channel
        /\ \A c \in SyntheticChildren(k) : NumberedAndChained(c, k)

(***************************************************************************)
(* C23 amended: the channel children of a device with more than one        *)
(* channel are created in the ascending order of their COM label numbers,  *)
(* each with portNumber equal to its channel's index (or, without an       *)
(* index, its 1-based position in that order) and portChain equal to the   *)
(* parent's portChain, "-" and that number; the children list of the       *)
(* device is then sorted by portNumber.                                    *)
(***************************************************************************)
C23_ChannelChildrenInIndexOrder ==
    Done => \A k \in Keys : IsExpanded(k) =>
        /\ \A c, d \in SyntheticChildren(k) :
              CreatedBefore(c, d) <=>
                 ComNum(ChannelOf(c).port) < ComNum(ChannelOf(d).port)
        /\ \A c \in SyntheticChildren(k) : NumberedAndChained(c, k)
        /\ \A i, j \in DOMAIN devices[k].children :
              i < j => devices[devices[k].children[i]].portNumber
                          <= devices[devices[k].children[j]].portNumber

\* a bridge below a root hub whose channels 1 and 2 came in descending label
\* order: its children are the bridge's chain followed by "-1" and "-2"
C23_Witness ==
    /\ Done
    /\ Len(comPorts) = 2
    /\ ComNum(comPorts[1].port) > ComNum(comPorts[2].port)
    /\ \E k \in Range(TreeNodes) :
          /\ IsExpanded(k)
          /\ Len(devices[k].portChain) > 1
          /\ \E c, d \in SyntheticChildren(k) :
                /\ CreatedBefore(c, d)
                /\ ChannelOf(c).channel = 1
                /\ ChannelOf(d).channel = 2
                /\ devices[c].portChain = devices[k].portChain \o <<"-", "1">>
                /\ devices[d].portChain = devices[k].portChain \o <<"-", "2">>

(***************************************************************************)
(* C24: multi-channel synthesis leaves every device that has exactly one   *)
(* channel as passes 1 to 6 made it: the channel stays in the device's own *)
(* channel list, no channel child is added to it, and its children list    *)
(* and portChain are those of the linking and chain passes.                *)
(***************************************************************************)
SingleChannelUntouched ==
    BuildUSBTree =>
        LET pre == BeforeSynthesis(devices, order, comPorts).devices
        IN \A k \in DOMAIN devices :
              Len(pre[k].comPorts) = 1 =>
                 /\ k \in DOMAIN devices'
                 /\ devices'[k].comPorts = pre[k].comPorts
                 /\ devices'[k].children = pre[k].children
                 /\ devices'[k].portChain = pre[k].portChain
                 /\ devices'[k] = pre[k]
                 /\ \A c \in Range(devices'[k].children) : c \in DOMAIN devices

C24_SingleChannelUntouched == [][SingleChannelUntouched]_vars

\* a device at port 1 below a root hub keeps its one channel and the chain
\* "1-1", and has no child
C24_Witness ==
    /\ Done
    /\ \E k \in Range(TreeNodes) :
          /\ Cardinality(OwnedPorts(k)) = 1
          /\ Len(devices[k].comPorts) = 1
          /\ \A cp \in OwnedPorts(k) : devices[k].comPorts[1].port = cp.port
          /\ devices[k].portChain = <<"1", "-", "1">>
          /\ devices[k].children = << >>

(***************************************************************************)
(* C25: after buildUSBTree every device of the map that is not reachable   *)
(* from a declared root has an empty portChain: orphans, their             *)
(* descendants, and the channel children created for them.  Refuted by the *)
(* code: line 358 gives the channel child of a device without a chain the  *)
(* chain "-" followed by its number.                                       *)
(***************************************************************************)
C25_UnreachableHasNoChain ==
    Done => \A k \in Keys \ Range(TreeNodes) : devices[k].portChain = << >>

(***************************************************************************)
(* C26: for every finite input, also one where a device names itself as    *)
(* parent or where parent references form a cycle, buildUSBTree            *)
(* terminates: buildPortChain is called at most once on each device, and   *)
(* the loop of pass 7 passes the end of the map although it adds devices   *)
(* to the map it iterates.                                                 *)
(***************************************************************************)
VisitedAtMostOnce == \A k \in DOMAIN visits : visits[k] <= 1

LoopWithinMap == cursor <= Len(order) + 1 /\ Len(order) <= MaxMapSize

C26_BuildTerminates == <>Done /\ []VisitedAtMostOnce /\ []LoopWithinMap

SelfParent(k) == Names(devices[k].parentPath, k)

\* the tree is returned for an input with a device that names itself as
\* parent, beside a root hub whose expansion added two devices to the map
C26_Witness ==
    /\ Done
    /\ cursor = Len(order) + 1
    /\ \E k \in InputKeys : SelfParent(k) /\ k \in Range(devices[k].children)
    /\ \E k \in InputKeys : visits[k] = 1 /\ Cardinality(SyntheticChildren(k)) = 2

(***************************************************************************)
(* C27: if the genuine children of every device have pairwise distinct     *)
(* port numbers, then after buildUSBTree the children of every device have *)
(* pairwise distinct port numbers: no two channel children of one device   *)
(* share a number, and no channel child has the number of a genuine child. *)
(* Refuted by the code: line 357 numbers a channel by its index, or by its *)
(* position when it has none, without looking at the numbers in use.       *)
(***************************************************************************)
GenuineChildren(k) == {c \in Range(devices[k].children) : ~IsSynthetic(c)}

GenuineSiblingPortsDistinct ==
    \A k \in Keys : \A c, d \in GenuineChildren(k) :
        c # d => devices[c].portNumber # devices[d].portNumber

C27_SiblingPortsStayDistinct ==
    (Done /\ GenuineSiblingPortsDistinct) => \A k \in Keys : SiblingPortsDistinct(k)

(***************************************************************************)
(* C28: after buildUSBTree every entry of comPortMap is consistent with    *)
(* the tree: its label is the label of its channel, no label has two       *)
(* entries, its device is a device of the map, and the channel list of     *)
(* that device is exactly that one channel.  A device with several         *)
(* channels is never the mapped device, so getComPortList reports the      *)
(* portChain of the mapped device and never extends it with a channel      *)
(* number.                                                                 *)
(***************************************************************************)
EntryConsistent(e) ==
    /\ e.port = e.comInfo.port
    /\ e.device \in Keys
    /\ devices[e.device].comPorts = <<e.comInfo>>
    /\ ExtendedChain(devices[e.device], e.comInfo) = devices[e.device].portChain

C28_ComPortMapConsistent ==
    Done =>
        /\ \A i \in DOMAIN comPortMap : EntryConsistent(comPortMap[i])
        /\ \A i, j \in DOMAIN comPortMap :
              comPortMap[i].port = comPortMap[j].port => i = j
        /\ Answered("getComPortList") =>
              \A j \in DOMAIN reply.value : \E i \in DOMAIN comPortMap :
                 /\ comPortMap[i].port = reply.value[j].port
                 /\ reply.value[j].portChain = devices[comPortMap[i].device].portChain

\* the list has the entry of a channel child of index 2 below a declared
\* root, with the chain of the child and nothing after it
C28_Witness ==
    /\ Answered("getComPortList")
    /\ \E i \in DOMAIN comPortMap : \E j \in DOMAIN reply.value :
          /\ IsSynthetic(comPortMap[i].device)
          /\ comPortMap[i].device \in Range(TreeNodes)
          /\ comPortMap[i].comInfo.channel = 2
          /\ reply.value[j].port = comPortMap[i].port
          /\ reply.value[j].portChain = devices[comPortMap[i].device].portChain
          /\ Len(reply.value[j].portChain) = 3

(***************************************************************************)
(* C29: every key of allDevices is the upper-case form of the instance     *)
(* path of its device, and no two keys are equal ignoring case, so a       *)
(* lookup by the upper-cased path finds every device of the returned tree, *)
(* channel children included.  Refuted by the code: line 381 stores a      *)
(* channel child under its instance path as it is.                         *)
(***************************************************************************)
C29_KeysAreUpperCase ==
    Done =>
        /\ \A k \in Keys : k = ToUpperCase(devices[k].instancePath)
        /\ \A j, k \in Keys : ToUpperCase(j) = ToUpperCase(k) => j = k
        /\ \A k \in Keys : ToUpperCase(devices[k].instancePath) \in Keys

(***************************************************************************)
(* C30 as stated: the tree is determined by the set of input records: for  *)
(* any two orderings of the same device and channel records every node has *)
(* the same portChain and the same children sequence in both results.      *)
(* Refuted: two genuine siblings of equal port number stand in the order   *)
(* in which the records came.                                              *)
(***************************************************************************)
\* the orderings of the entries of a map
Orderings(seq) ==
    {[i \in DOMAIN seq |-> seq[p[i]]] :
        p \in {q \in [DOMAIN seq -> DOMAIN seq] : \A i, j \in DOMAIN seq : q[i] = q[j] => i = j}}

\* the trees buildUSBTree returns for the records of this state, one for
\* each ordering of the device records and of the channel records
OtherResults ==
    {BuildResult(devices, ord, cps).devices :
        ord \in Orderings(order), cps \in Orderings(comPorts)}

SameChains(a, b) ==
    /\ DOMAIN a = DOMAIN b
    /\ \A k \in DOMAIN a : a[k].portChain = b[k].portChain

SameChildrenInOrder ==
    BuildUSBTree =>
        \A other \in OtherResults :
            /\ SameChains(other, devices')
            /\ \A k \in DOMAIN devices' : other[k].children = devices'[k].children

C30_DeterministicInRecordSet_AsStated == [][SameChildrenInOrder]_vars

(***************************************************************************)
(* C30 amended: for any two orderings of the same device and channel       *)
(* records every node has the same portChain and the same set of children  *)
(* in both results, and the same children sequence when its genuine        *)
(* children have pairwise distinct port numbers; genuine children of equal *)
(* port number stand in the order of their records.                        *)
(***************************************************************************)
GenuinePortsDistinctIn(devs, k) ==
    \A i, j \in DOMAIN devs[k].children :
        LET c == devs[k].children[i]
            d == devs[k].children[j]
        IN (i # j /\ c \in DOMAIN devices /\ d \in DOMAIN devices)
              => devs[c].portNumber # devs[d].portNumber

TiedInRecordOrder(devs, ord, k) ==
    \A i, j \in DOMAIN devs[k].children :
        LET c == devs[k].children[i]
            d == devs[k].children[j]
        IN (/\ i < j
            /\ c \in DOMAIN devices
            /\ d \in DOMAIN devices
            /\ devs[c].portNumber = devs[d].portNumber)
              => \E m, n \in DOMAIN ord : m < n /\ ord[m] = c /\ ord[n] = d

SameChildrenUpToTies ==
    BuildUSBTree =>
        /\ \A other \in OtherResults :
              /\ SameChains(other, devices')
              /\ \A k \in DOMAIN devices' :
                    /\ Range(other[k].children) = Range(devices'[k].children)
                    /\ Len(other[k].children) = Len(devices'[k].children)
                    /\ GenuinePortsDistinctIn(devices', k)
                          => other[k].children = devices'[k].children
        /\ \A k \in DOMAIN devices' : TiedInRecordOrder(devices', order', k)

C30_DeterministicInRecordSet == [][SameChildrenUpToTies]_vars

\* a node whose two genuine children have distinct port numbers and came
\* with the larger number first: they stand in the order of their numbers
C30_Witness ==
    /\ Done
    /\ \E k \in Range(TreeNodes) : \E c, d \in GenuineChildren(k) :
          /\ CreatedBefore(c, d)
          /\ devices[c].portNumber > devices[d].portNumber
          /\ devices[k].children = <<d, c>>

====
